---- MODULE Spec2Model ----
(***************************************************************************)
(* Two-stage retrieval of the RAG chatbot: vector recall (Chroma) followed *)
(* by cross-encoder re-ranking, as implemented twice in the repository     *)
(* (VectorRetriever in vector_retriever.py, RagProcessor.retrieve in       *)
(* rag_core.py), plus the recall-only mode and the full scan.              *)
(*                                                                         *)
(* A chunk of the index is its page_content, abstracted to the integer its *)
(* embedding is; a query is abstracted the same way.  The distance the     *)
(* index reports is the distance of the two embeddings.  The cross-encoder *)
(* is an external model: what it answers to a predict() call is chosen by  *)
(* the environment (a list of at most as many scores as pairs, or an       *)
(* exception).                                                             *)
(***************************************************************************)
EXTENDS Integers, Sequences, FiniteSets, TLC

\* ---------------------------------------------------------------- bounds
MaxIndex == 3      \* most chunks the vector index holds
MaxEmb == 1        \* embeddings of chunks and queries range over 0..MaxEmb
MaxK == 2          \* SEARCH_K_RAW and SEARCH_K_FINAL range over 1..MaxK
MaxScore == 1      \* cross-encoder scores range over 0..MaxScore

\* Two callers share the retriever.
Threads == {"t1", "t2"}

Contents == 0..MaxEmb

MaxMessages == 2   \* most rows of chat_history
MaxResults == 2    \* most results an evaluation displays
MaxEvaluations == 2  \* most rows of validation_runs

\* message_id values; 0 stands for None.
Messages == 1..MaxMessages
Ratings == {"like", "dislike"}
Queries == 0..MaxEmb
Scores == 0..MaxScore

VARIABLES
    vectordb,             \* the Chroma collection: sequence of page_content
    indexed,              \* the collection as the retriever found it
    index_ordered,        \* TRUE: the index answers in ascending distance
    SEARCH_K_RAW,         \* config.SEARCH_K_RAW
    SEARCH_K_FINAL,       \* config.SEARCH_K_FINAL
    pc,                   \* "idle" | "recall" | "rerank"
    method,               \* the retrieval method running / last run
    query,                \* its argument
    stage1,               \* "pending" | "ok" | "raised": similarity search
    results_with_scores,  \* local: the Stage 1 answer, <<doc, distance>>
    predict,              \* "not_called" | "ok" | "raised": reranker.predict
    rerank_scores,        \* local: what reranker.predict returned
    predict_batches,      \* sizes of the batches given to reranker.predict
    outcome,              \* "running" | "returned" | "raised"
    returned,             \* the value the call returned
    log,                  \* the messages the call printed
    index_queries,        \* similarity searches issued by the call
    search_k,             \* k of the latest similarity search of the call
    prev                  \* the previous call, when this one repeats it

\* The process that serves the chat: the Streamlit script app.py on top of
\* RAGChain, or a caller of rag_core.get_rag_processor().
VARIABLES
    front,                \* "app" (app.py + RAGChain) | "rag_core"
    db_dir_exists,        \* os.path.exists(config.VECTOR_DB_DIR)
    app_pc,               \* position of the script run
    runs,                 \* script runs started in this process
    loads,                \* times the models and the index were loaded
    instance,             \* a pipeline object exists (chain / singleton)
    built_on_missing_dir, \* ... and was built while the directory was missing
    ui,                   \* what the page shows to the end user
    req_retrieval,        \* "none" | "returned" | "raised": the last request
    req_context,          \* number of passages it retrieved
    req_llm,              \* "not_called" | "ok" | "raised": model.invoke
    req_outcome           \* "none" | "answered" | "generic" | "raised"

\* The ingestion job ingest.py and the directories it works on.
VARIABLES
    docs_dir,             \* the PDF files in config.DOCS_DIR
    unreadable,           \* those of them PyMuPDFLoader fails on
    db_path,              \* config.VECTOR_DB_DIR: "absent" | "dir" | "file"
    db_chunks,            \* the chunks stored in the directory
    ingest_runs,          \* runs of process_documents so far
    fresh                 \* TRUE: nothing changed since the last run ended

\* Retrieval calls running concurrently on one VectorRetriever.
VARIABLES
    calls,                \* per thread: the call it runs, or ran last
    frames                \* per call frame: the local results_with_scores

\* The SQLite file database.DB_PATH and the code that writes to it.
VARIABLES
    sqlite_db,            \* the committed rows of its four tables
    response,             \* what RAGChain.generate_response returned last
    feedback_calls,       \* per message_id: the save_feedback calls so far
    evaluation            \* the save_evaluation_to_db call in progress

\* The module-level singleton of rag_core and its callers.
VARIABLES
    singleton,            \* the global variable and what was built for it
    getters               \* per thread: its call of the accessor

retrievalVars == <<vectordb, indexed, index_ordered, SEARCH_K_RAW, SEARCH_K_FINAL, pc,
                   method, query, stage1, results_with_scores, predict,
                   rerank_scores, predict_batches, outcome, returned, log,
                   index_queries,
                   search_k, prev>>

request == <<req_retrieval, req_context, req_llm, req_outcome>>

appVars == <<front, db_dir_exists, app_pc, runs, loads, instance,
             built_on_missing_dir, ui, request>>

ingestVars == <<docs_dir, unreadable, db_path, db_chunks, ingest_runs, fresh>>

threadVars == <<calls, frames>>

storeVars == <<sqlite_db, response, feedback_calls, evaluation>>

singletonVars == <<singleton, getters>>

\* What a retrieval call leaves alone.
others == <<appVars, ingestVars, threadVars, storeVars,
                   singletonVars>>

\* What the serving process leaves alone.
outsideApp == <<retrievalVars, ingestVars, threadVars, storeVars,
                   singletonVars>>

vars == <<retrievalVars, appVars, ingestVars, threadVars, storeVars,
                   singletonVars>>

config == <<SEARCH_K_RAW, SEARCH_K_FINAL>>
call == <<method, query, stage1, results_with_scores, predict, rerank_scores,
          predict_batches,
          outcome, returned, log, index_queries, search_k>>

\* ------------------------------------------------------- pure operators
Min(a, b) == IF a <= b THEN a ELSE b
Abs(x) == IF x < 0 THEN -x ELSE x
Range(s) == {s[i] : i \in DOMAIN s}

\* langchain Document: the chunk at position id of the collection.
Document(id, page_content) == [id |-> id, page_content |-> page_content]

\* Embedding oracle + metric: distance of a query to a chunk (smaller is
\* better).
Distance(q, page_content) == Abs(q - page_content)

\* s[:k]
Take(s, k) == SubSeq(s, 1, Min(k, Len(s)))

\* Faulty variant of Zip: every score is paired with the first candidate.
Zip_first(a, b) == [i \in 1..Min(Len(a), Len(b)) |-> <<a[1], b[i]>>]

\* list(zip(a, b)): stops at the shorter list.
Zip(a, b) == [i \in 1..Min(Len(a), Len(b)) |-> <<a[i], b[i]>>]

\* Faulty variant of Before: equal keys count as before.
Before_or_equal(x, y, reverse) == IF reverse THEN x[2] >= y[2] ELSE x[2] <= y[2]

\* Order of list.sort(key=lambda x: x[1], reverse=...): x goes before y.
Before(x, y, reverse) == IF reverse THEN x[2] > y[2] ELSE x[2] < y[2]

RECURSIVE Insert(_, _, _)
Insert(x, s, reverse) ==
    IF s = <<>> THEN <<x>>
    ELSE IF Before(x, Head(s), reverse) THEN <<x>> \o s
    ELSE <<Head(s)>> \o Insert(x, Tail(s), reverse)

\* list.sort / sorted with key=lambda x: x[1]: stable, also with reverse.
RECURSIVE SortByKey(_, _)
SortByKey(s, reverse) ==
    IF s = <<>> THEN <<>>
    ELSE Insert(s[Len(s)], SortByKey(SubSeq(s, 1, Len(s) - 1), reverse), reverse)

\* Chroma similarity_search_with_score(query, k): the k nearest chunks with
\* their distances; in ascending distance when the index honours its
\* ordering contract, in storage order otherwise.
similarity_search_with_score(db, ordered, q, k) ==
    LET all == [i \in 1..Len(db) |-> <<Document(i, db[i]), Distance(q, db[i])>>]
        nearest == Take(SortByKey(all, FALSE), k)
    IN  IF ordered THEN nearest
        ELSE SelectSeq(all, LAMBDA c : c \in Range(nearest))

\* [doc for doc, score in ...]: the documents of a list of (doc, x) tuples.
Docs(s) == [i \in DOMAIN s |-> s[i][1]]

\* Faulty variant of Pairs: only the first candidate is paired.
Pairs_first(q, cands) ==
    [i \in DOMAIN Take(cands, 1) |-> <<q, cands[i][1].page_content>>]

\* pairs = [[query, doc.page_content] for doc, score in results_with_scores]
Pairs(q, cands) == [i \in DOMAIN cands |-> <<q, cands[i][1].page_content>>]

\* Faulty variant of NoResults: the emptiness check is missing.
NoResults_unchecked(cands) == FALSE

\* `if not results_with_scores:` - the early return of the full pipeline.
NoResults(cands) == cands = <<>>

\* Faulty variant of Rerank: reverse=True is missing, the sort is ascending.
Rerank_ascending(cands, scores, k_final) ==
    Take(SortByKey(Zip(cands, scores), FALSE), k_final)

\* Faulty variant of Rerank: the [:K_FINAL] slice is missing.
Rerank_untruncated(cands, scores, k_final) ==
    SortByKey(Zip(cands, scores), TRUE)

\* Faulty variant of Rerank: candidates with a score of 0 or less are dropped.
Rerank_thresholded(cands, scores, k_final) ==
    Take(SelectSeq(SortByKey(Zip(cands, scores), TRUE), LAMBDA x : x[2] > 0),
         k_final)

\* Faulty variant of Rerank: the cut to K_FINAL comes before the sort.
Rerank_cut_first(cands, scores, k_final) ==
    SortByKey(Take(Zip(cands, scores), k_final), TRUE)

\* zip, sort by the new score (larger is better), keep the top K_FINAL.
Rerank(cands, scores, k_final) == Take(SortByKey(Zip(cands, scores), TRUE), k_final)

\* Faulty variant of final_results: the Stage 1 distance is kept as score.
final_results_old_score(top_k_results) ==
    [i \in DOMAIN top_k_results |-> <<top_k_results[i][1][1], top_k_results[i][1][2]>>]

\* (doc, rerank_score) for (doc, old_score), rerank_score in top_k_results
final_results(top_k_results) ==
    [i \in DOMAIN top_k_results |-> <<top_k_results[i][1][1], top_k_results[i][2]>>]

\* doc for (doc, old_score), rerank_score in reranked_results[:K_FINAL]
top_k_documents(top_k_results) ==
    [i \in DOMAIN top_k_results |-> top_k_results[i][1][1]]

\* VectorRetriever.retrieve_context_with_scores, the try block of Stage 2.
retrieve_context_with_scores_try(cands, scores, k_final) ==
    [outcome |-> "returned",
     value |-> final_results(Rerank(cands, scores, k_final)),
     log |-> <<"Etapa 2 concluida">>]

\* Faulty variant of retrieve_context_with_scores_except: the handler re-raises.
retrieve_context_with_scores_except_reraise(cands, k_final) ==
    [outcome |-> "raised",
     value |-> <<>>,
     log |-> <<"Erro durante o Re-Ranking">>]

\* VectorRetriever.retrieve_context_with_scores, `except Exception`.
retrieve_context_with_scores_except(cands, k_final) ==
    [outcome |-> "returned",
     value |-> <<>>,
     log |-> <<"Erro durante o Re-Ranking">>]

\* RagProcessor.retrieve, the try block of Stage 2.
retrieve_try(cands, scores, k_final) ==
    [outcome |-> "returned",
     value |-> top_k_documents(Rerank(cands, scores, k_final)),
     log |-> <<"[Retriever] Buscou, re-rankeou">>]

\* Faulty variant of retrieve_except: the fallback is taken silently.
retrieve_except_silent(cands, k_final) ==
    [outcome |-> "returned",
     value |-> Docs(Take(SortByKey(cands, FALSE), k_final)),
     log |-> <<>>]

\* RagProcessor.retrieve, `except Exception`: fall back to the vector order.
retrieve_except(cands, k_final) ==
    [outcome |-> "returned",
     value |-> Docs(Take(SortByKey(cands, FALSE), k_final)),
     log |-> <<"Erro durante o Re-Ranking", "Fallback">>]

\* k of the similarity search of the full pipeline: config.SEARCH_K_RAW.
full_pipeline_k(k_raw, k_final) == k_raw

\* Faulty variant of vector_search_only_k: the search asks for K_RAW chunks.
vector_search_only_k_raw(k_raw, k_final) == k_raw

\* k of the similarity search of the recall-only mode: config.SEARCH_K_FINAL.
vector_search_only_k(k_raw, k_final) == k_final

\* Faulty variant of retrieve_context_vector_search_only_try: the sort is
\* descending (larger distance first).
retrieve_context_vector_search_only_reversed(cands) ==
    [outcome |-> "returned",
     value |-> IF cands = <<>> THEN <<>> ELSE SortByKey(cands, TRUE),
     log |-> IF cands = <<>> THEN <<"Nenhum resultado encontrado">>
             ELSE <<"Etapa 1 (Recall) concluida">>]

\* Faulty variant of retrieve_context_vector_search_only_try: the sort is missing.
retrieve_context_vector_search_only_unsorted(cands) ==
    [outcome |-> "returned",
     value |-> cands,
     log |-> IF cands = <<>> THEN <<"Nenhum resultado encontrado">>
             ELSE <<"Etapa 1 (Recall) concluida">>]

\* VectorRetriever.retrieve_context_vector_search_only, the try block once
\* the index has answered.
retrieve_context_vector_search_only_try(cands) ==
    [outcome |-> "returned",
     value |-> IF cands = <<>> THEN <<>> ELSE SortByKey(cands, FALSE),
     log |-> IF cands = <<>> THEN <<"Nenhum resultado encontrado">>
             ELSE <<"Etapa 1 (Recall) concluida">>]

\* VectorRetriever.retrieve_context_vector_search_only, `except Exception`.
retrieve_context_vector_search_only_except ==
    [outcome |-> "returned",
     value |-> <<>>,
     log |-> <<"Erro durante a busca vetorial">>]

\* An exception of similarity_search_with_score in the full pipeline: the
\* call is outside any try block.
recall_raises ==
    [outcome |-> "raised", value |-> <<>>, log |-> <<>>]

\* VectorRetriever.retrieve_context: the documents of the scored result.
retrieve_context(results) == Docs(results)

\* Metadata of the chunk at position id: its source document and page.
Metadata(id) == [source |-> "docs", page |-> id]

\* Faulty variant of vectordb_get: the metadata is not included.
vectordb_get_documents_only(db) ==
    [documents |-> db, metadatas |-> <<>>]

\* Chroma get(): every chunk of the collection with its metadata, as two
\* lists in the same order.
vectordb_get(db) ==
    [documents |-> db, metadatas |-> [i \in DOMAIN db |-> Metadata(i)]]

\* Truth value of the Chroma object in `if self.vectordb`: its chunk count
\* when the class defines __len__, true otherwise.
vectordb_truthy(db, has_len) == IF has_len THEN Len(db) # 0 ELSE TRUE

\* VectorRetriever.get_all_chunks.
get_all_chunks_result(db, has_len) ==
    IF vectordb_truthy(db, has_len) THEN vectordb_get(db)
    ELSE [documents |-> <<>>, metadatas |-> <<>>]

\* Faulty variant of vectordb_after_retrieval: the search sorts the collection in
\* place by distance to the query.
vectordb_sorted_in_place(db, q) ==
    LET keyed == SortByKey([i \in DOMAIN db |-> <<db[i], Distance(q, db[i])>>], FALSE)
    IN  [i \in DOMAIN keyed |-> keyed[i][1]]

\* What a retrieval call does to the collection it searched: it only reads.
vectordb_after_retrieval(db, q) == db

\* ------------------------------------------------------------ the state
FullPipeline == {"retrieve_context_with_scores", "retrieve"}
Methods == FullPipeline \cup {"retrieve_context_vector_search_only"}

Indexes == UNION {[1..n -> Contents] : n \in 0..MaxIndex}
ScoreLists(n) == UNION {[1..m -> Scores] : m \in 0..n}

\* No serving process is modelled.
AppQuiet ==
    /\ front = "none"
    /\ db_dir_exists = TRUE
    /\ app_pc = "script_start"
    /\ runs = 0
    /\ loads = 0
    /\ instance = FALSE
    /\ built_on_missing_dir = FALSE
    /\ ui = {}
    /\ req_retrieval = "none"
    /\ req_context = 0
    /\ req_llm = "not_called"
    /\ req_outcome = "none"

\* No ingestion is modelled.
IngestQuiet ==
    /\ docs_dir = {}
    /\ unreadable = {}
    /\ db_path = "absent"
    /\ db_chunks = {}
    /\ ingest_runs = 0
    /\ fresh = FALSE

\* A thread that has not called yet.
NoThreadCall ==
    [pc |-> "idle", method |-> "none", query |-> 0, search_ok |-> TRUE,
     predict_ok |-> TRUE, outcome |-> "none", returned |-> <<>>]

\* database.init_db: the four tables, empty.
EmptyDb ==
    [chat_history |-> {}, feedback |-> {}, validation_runs |-> {},
     validation_retrieved_chunks |-> {}]

NoResponse == [answered |-> FALSE, message_id |-> 0, buttons |-> FALSE]

NoFeedbackCall ==
    [last |-> "none", previous |-> "none", written |-> FALSE, stored |-> "none"]

NoEvaluation ==
    [pc |-> "idle", k |-> 0, run_id |-> 0, runs |-> {}, chunks |-> {}]

\* Nothing writes to the database.
StoreQuiet ==
    /\ sqlite_db = EmptyDb
    /\ response = NoResponse
    /\ feedback_calls = [m \in Messages |-> NoFeedbackCall]
    /\ evaluation = NoEvaluation

NoGetter == [pc |-> "idle", built |-> 0, got |-> 0]

\* Nobody asks for the singleton.
SingletonQuiet ==
    /\ singleton = [accessor |-> "none", instance |-> 0, constructions |-> 0,
                    handed |-> {}]
    /\ getters = [t \in Threads |-> NoGetter]

\* No concurrent call is modelled.
ThreadsQuiet ==
    /\ calls = [t \in Threads |-> NoThreadCall]
    /\ frames = [t \in Threads |-> <<>>]

NoCall ==
    [valid |-> FALSE, stage1 |-> "pending", results_with_scores |-> <<>>,
     predict |-> "not_called", rerank_scores |-> <<>>,
     outcome |-> "running", returned |-> <<>>]

ThisCall ==
    [valid |-> TRUE, stage1 |-> stage1,
     results_with_scores |-> results_with_scores,
     predict |-> predict, rerank_scores |-> rerank_scores,
     outcome |-> outcome, returned |-> returned]

Init ==
    /\ vectordb \in Indexes
    /\ indexed = vectordb
    /\ index_ordered \in BOOLEAN
    /\ SEARCH_K_RAW \in 1..MaxK
    /\ SEARCH_K_FINAL \in 1..MaxK
    /\ pc = "idle"
    /\ method = "none"
    /\ query = 0
    /\ stage1 = "pending"
    /\ results_with_scores = <<>>
    /\ predict = "not_called"
    /\ rerank_scores = <<>>
    /\ predict_batches = <<>>
    /\ outcome = "running"
    /\ returned = <<>>
    /\ log = <<>>
    /\ index_queries = 0
    /\ search_k = 0
    /\ prev = NoCall
    /\ AppQuiet
    /\ IngestQuiet
    /\ ThreadsQuiet
    /\ StoreQuiet
    /\ SingletonQuiet

\* A caller invokes method m with query q.  prev keeps the call just
\* finished when this one repeats it (same method, same query).
Invoke(m, q) ==
    /\ pc = "idle"
    /\ pc' = "recall"
    /\ method' = m
    /\ query' = q
    /\ stage1' = "pending"
    /\ results_with_scores' = <<>>
    /\ predict' = "not_called"
    /\ rerank_scores' = <<>>
    /\ predict_batches' = <<>>
    /\ outcome' = "running"
    /\ returned' = <<>>
    /\ log' = <<>>
    /\ index_queries' = 0
    /\ search_k' = 0
    /\ prev' = IF method = m /\ query = q THEN ThisCall
               ELSE NoCall
    /\ UNCHANGED <<vectordb, indexed, index_ordered, config, others>>

\* The call ends with the handler result r.
Finish(r) ==
    /\ pc' = "idle"
    /\ outcome' = r.outcome
    /\ returned' = r.value
    /\ log' = log \o r.log

\* prev is dropped when an oracle did not repeat itself: the similarity
\* search failed in one call and not in the other, ...
PrevAfterSearch(s1) ==
    IF prev.valid /\ prev.stage1 # s1 THEN NoCall ELSE prev

\* ... or the cross-encoder answered the same pairs differently.
PrevAfterPredict(status, scores) ==
    IF /\ prev.valid
       /\ Pairs(query, prev.results_with_scores) = Pairs(query, results_with_scores)
       /\ (prev.predict # status \/ prev.rerank_scores # scores)
    THEN NoCall ELSE prev

\* Stage 1 of the full pipeline (both implementations): one similarity
\* search with k = SEARCH_K_RAW, outside any try block; an empty answer
\* returns [] at once, after printing none_found.
Recall(m, search_ok, none_found) ==
    /\ pc = "recall"
    /\ method = m
    /\ index_queries' = index_queries + 1
    /\ search_k' = full_pipeline_k(SEARCH_K_RAW, SEARCH_K_FINAL)
    /\ vectordb' = vectordb_after_retrieval(vectordb, query)
    /\ prev' = PrevAfterSearch(IF search_ok THEN "ok" ELSE "raised")
    /\ IF ~search_ok
       THEN /\ stage1' = "raised"
            /\ results_with_scores' = <<>>
            /\ Finish(recall_raises)
       ELSE LET answer == similarity_search_with_score(
                              vectordb, index_ordered, query,
                              full_pipeline_k(SEARCH_K_RAW, SEARCH_K_FINAL))
            IN  /\ stage1' = "ok"
                /\ results_with_scores' = answer
                /\ IF NoResults(answer)
                   THEN Finish([outcome |-> "returned", value |-> <<>>,
                                log |-> <<none_found>>])
                   ELSE /\ pc' = "rerank"
                        /\ UNCHANGED <<outcome, returned, log>>
    /\ UNCHANGED others
    /\ UNCHANGED <<indexed, index_ordered, config, method, query, predict,
                   rerank_scores, predict_batches>>

\* VectorRetriever.retrieve_context_with_scores, Stage 1.
retrieve_context_with_scores_recall ==
    \E search_ok \in BOOLEAN :
        Recall("retrieve_context_with_scores", search_ok,
               "Nenhum resultado encontrado na busca vetorial")

\* RagProcessor.retrieve, Stage 1.
retrieve_recall ==
    \E search_ok \in BOOLEAN :
        Recall("retrieve", search_ok, "[Retriever] Nenhum documento encontrado")

\* Stage 2: reranker.predict(pairs) answers scores or raises; the handler
\* finishes with its try or its except branch.
Rerank2(m, predict_ok, scores, r) ==
    /\ pc = "rerank"
    /\ method = m
    /\ predict' = IF predict_ok THEN "ok" ELSE "raised"
    /\ rerank_scores' = scores
    /\ predict_batches' = Append(predict_batches,
                                 Len(Pairs(query, results_with_scores)))
    /\ prev' = PrevAfterPredict(IF predict_ok THEN "ok" ELSE "raised", scores)
    /\ Finish(r)
    /\ UNCHANGED others
    /\ UNCHANGED <<vectordb, indexed, index_ordered, config, method, query, stage1,
                   results_with_scores, index_queries, search_k>>

\* VectorRetriever.retrieve_context_with_scores, Stage 2.
retrieve_context_with_scores_rerank ==
    \/ \E scores \in ScoreLists(Len(results_with_scores)) :
          Rerank2("retrieve_context_with_scores", TRUE, scores,
                  retrieve_context_with_scores_try(
                      results_with_scores, scores, SEARCH_K_FINAL))
    \/ Rerank2("retrieve_context_with_scores", FALSE, <<>>,
               retrieve_context_with_scores_except(
                   results_with_scores, SEARCH_K_FINAL))

\* RagProcessor.retrieve, Stage 2.
retrieve_rerank ==
    \/ \E scores \in ScoreLists(Len(results_with_scores)) :
          Rerank2("retrieve", TRUE, scores,
                  retrieve_try(results_with_scores, scores, SEARCH_K_FINAL))
    \/ Rerank2("retrieve", FALSE, <<>>,
               retrieve_except(results_with_scores, SEARCH_K_FINAL))

\* VectorRetriever.retrieve_context_vector_search_only: one similarity
\* search with k = SEARCH_K_FINAL inside a try block that catches everything.
retrieve_context_vector_search_only ==
    /\ pc = "recall"
    /\ method = "retrieve_context_vector_search_only"
    /\ index_queries' = index_queries + 1
    /\ search_k' = vector_search_only_k(SEARCH_K_RAW, SEARCH_K_FINAL)
    /\ vectordb' = vectordb_after_retrieval(vectordb, query)
    /\ \E search_ok \in BOOLEAN :
          /\ prev' = PrevAfterSearch(IF search_ok THEN "ok" ELSE "raised")
          /\ IF ~search_ok
             THEN /\ stage1' = "raised"
                  /\ results_with_scores' = <<>>
                  /\ Finish(retrieve_context_vector_search_only_except)
             ELSE LET answer == similarity_search_with_score(
                                    vectordb, index_ordered, query,
                                    vector_search_only_k(SEARCH_K_RAW,
                                                         SEARCH_K_FINAL))
                  IN  /\ stage1' = "ok"
                      /\ results_with_scores' = answer
                      /\ Finish(retrieve_context_vector_search_only_try(answer))
    /\ UNCHANGED others
    /\ UNCHANGED <<indexed, index_ordered, config, method, query, predict,
                   rerank_scores, predict_batches>>

\* VectorRetriever.get_all_chunks: the full scan, no query and no scoring.
get_all_chunks ==
    /\ pc = "idle"
    /\ method' = "get_all_chunks"
    /\ query' = 0
    /\ stage1' = "pending"
    /\ results_with_scores' = <<>>
    /\ predict' = "not_called"
    /\ rerank_scores' = <<>>
    /\ predict_batches' = <<>>
    /\ outcome' = "returned"
    /\ \E has_len \in BOOLEAN :
           returned' = get_all_chunks_result(vectordb, has_len)
    /\ log' = <<>>
    /\ index_queries' = 0
    /\ search_k' = 0
    /\ prev' = NoCall
    /\ vectordb' = vectordb_after_retrieval(vectordb, 0)
    /\ UNCHANGED <<indexed, index_ordered, config, pc, others>>

Next ==
    \/ \E m \in Methods, q \in Queries : Invoke(m, q)
    \/ retrieve_context_with_scores_recall
    \/ retrieve_context_with_scores_rerank
    \/ retrieve_recall
    \/ retrieve_rerank
    \/ retrieve_context_vector_search_only
    \/ get_all_chunks

Spec == Init /\ [][Next]_vars

\* The full pipeline alone, in its two implementations.
FullPipelineNext ==
    \/ \E m \in FullPipeline, q \in Queries : Invoke(m, q)
    \/ retrieve_context_with_scores_recall
    \/ retrieve_context_with_scores_rerank
    \/ retrieve_recall
    \/ retrieve_rerank

FullPipelineSpec == Init /\ [][FullPipelineNext]_vars


(***************************************************************************)
(* The serving process.  app.py is a Streamlit script: every interaction   *)
(* of the user (a submitted question, a click) runs it again from the top. *)
(* rag_core.py offers the same pipeline behind get_rag_processor().  What  *)
(* a retrieval answers is abstracted to the number of passages it returns  *)
(* or to the exception of Stage 1, which neither implementation catches.   *)
(***************************************************************************)
MaxRuns == 4       \* most script runs of one process
MaxPassages == 2   \* a retrieval returns 0..MaxPassages passages

\* No retrieval call of the sequential model is running.
CallQuiet ==
    /\ pc = "idle"
    /\ method = "none"
    /\ query = 0
    /\ stage1 = "pending"
    /\ results_with_scores = <<>>
    /\ predict = "not_called"
    /\ rerank_scores = <<>>
    /\ predict_batches = <<>>
    /\ outcome = "returned"
    /\ returned = <<>>
    /\ log = <<>>
    /\ index_queries = 0
    /\ search_k = 0
    /\ prev = NoCall

\* No retrieval is modelled.
RetrievalQuiet ==
    /\ vectordb = <<>>
    /\ indexed = <<>>
    /\ index_ordered = TRUE
    /\ SEARCH_K_RAW = 1
    /\ SEARCH_K_FINAL = 1
    /\ CallQuiet

\* VectorRetriever.__init__: the directory is checked before anything is
\* loaded; any other failure of a load is re-raised.
VectorRetriever_init(dir_exists, load_ok) ==
    IF ~dir_exists
    THEN [outcome |-> "FileNotFoundError", loaded |-> FALSE, dir_created |-> FALSE]
    ELSE IF load_ok
         THEN [outcome |-> "ok", loaded |-> TRUE, dir_created |-> FALSE]
         ELSE [outcome |-> "Exception", loaded |-> FALSE, dir_created |-> FALSE]

\* RagProcessor.__init__: no check of the directory; Chroma opens the
\* persist_directory, creating an empty store when it does not exist.
RagProcessor_init(dir_exists, load_ok) ==
    IF load_ok
    THEN [outcome |-> "ok", loaded |-> TRUE, dir_created |-> ~dir_exists]
    ELSE [outcome |-> "Exception", loaded |-> FALSE, dir_created |-> FALSE]

\* app.py, the except clauses around RAGChain(...): what st.error shows.
\* str(e) of the FileNotFoundError is config.VECTOR_DB_DIR.
app_init_display(init_outcome) ==
    CASE init_outcome = "FileNotFoundError" -> {"index_path"}
      [] init_outcome = "Exception" -> {"exception_text"}
      [] OTHER -> {}

\* An exception that leaves the script: Streamlit renders it on the page,
\* message and traceback.
uncaught_display == {"exception_text", "traceback"}

\* Faulty variant of RAGChain_generate: an empty context is an error.
RAGChain_generate_needs_context(n, llm_ok) ==
    IF n = 0
    THEN [outcome |-> "raised", llm |-> "not_called", shown |-> uncaught_display]
    ELSE IF llm_ok
         THEN [outcome |-> "answered", llm |-> "ok", shown |-> {"answer"}]
         ELSE [outcome |-> "generic", llm |-> "raised", shown |-> {"generic_error"}]

\* RAGChain.generate on a context of n passages: the join of their contents
\* (the empty string for n = 0), model.invoke inside try, the fixed sentence
\* 'Ocorreu um erro ao processar sua solicitação.' from the handler.
RAGChain_generate(n, llm_ok) ==
    IF llm_ok
    THEN [outcome |-> "answered", llm |-> "ok", shown |-> {"answer"}]
    ELSE [outcome |-> "generic", llm |-> "raised", shown |-> {"generic_error"}]

\* RagProcessor.generate: 'Nenhum contexto encontrado.' stands for an empty
\* context; model.invoke is outside any try.
RagProcessor_generate(n, llm_ok) ==
    IF llm_ok
    THEN [outcome |-> "answered", llm |-> "ok", shown |-> {}]
    ELSE [outcome |-> "raised", llm |-> "raised", shown |-> {}]

Passages == 0..MaxPassages

AppInit ==
    /\ RetrievalQuiet
    /\ IngestQuiet
    /\ ThreadsQuiet
    /\ StoreQuiet
    /\ SingletonQuiet
    /\ front \in {"app", "rag_core"}
    /\ db_dir_exists \in BOOLEAN
    /\ app_pc = "script_start"
    /\ runs = 1
    /\ loads = 0
    /\ instance = FALSE
    /\ built_on_missing_dir = FALSE
    /\ ui = {}
    /\ req_retrieval = "none"
    /\ req_context = 0
    /\ req_llm = "not_called"
    /\ req_outcome = "none"

\* app.py "2. Inicializar o RAGChain": RAGChain(session_id) builds a
\* VectorRetriever; a failure is displayed and the run stops.
app_init_chain ==
    /\ front = "app"
    /\ app_pc = "script_start"
    /\ \E load_ok \in BOOLEAN :
          LET r == VectorRetriever_init(db_dir_exists, load_ok) IN
          /\ loads' = IF r.loaded THEN loads + 1 ELSE loads
          /\ instance' = (r.outcome = "ok")
          /\ built_on_missing_dir' = (r.outcome = "ok" /\ ~db_dir_exists)
          /\ ui' = app_init_display(r.outcome)
          /\ app_pc' = IF r.outcome = "ok" THEN "chain_ready" ELSE "stopped"
    /\ req_retrieval' = "none"
    /\ req_context' = 0
    /\ req_llm' = "not_called"
    /\ req_outcome' = "none"
    /\ UNCHANGED <<front, db_dir_exists, runs, outsideApp>>

\* app.py "4. Gerenciar nova entrada": the run carries no question.
app_no_prompt ==
    /\ front = "app"
    /\ app_pc = "chain_ready"
    /\ app_pc' = "run_ended"
    /\ UNCHANGED <<front, db_dir_exists, runs, loads, instance,
                   built_on_missing_dir, ui, request, outsideApp>>

\* app.py "4. Gerenciar nova entrada": chain.generate_response(prompt), no
\* try around it; RAGChain.retrieve then RAGChain.generate.
app_prompt ==
    /\ front = "app"
    /\ app_pc = "chain_ready"
    /\ \E retrieval_ok \in BOOLEAN, r \in Passages, llm_ok \in BOOLEAN :
          IF ~retrieval_ok
          THEN /\ req_retrieval' = "raised"
               /\ req_context' = 0
               /\ req_llm' = "not_called"
               /\ req_outcome' = "raised"
               /\ ui' = ui \cup uncaught_display
               /\ app_pc' = "crashed"
          ELSE LET g == RAGChain_generate(r, llm_ok) IN
               /\ req_retrieval' = "returned"
               /\ req_context' = r
               /\ req_llm' = g.llm
               /\ req_outcome' = g.outcome
               /\ ui' = ui \cup g.shown
               /\ app_pc' = IF g.outcome = "raised" THEN "crashed"
                            ELSE "run_ended"
    /\ UNCHANGED <<front, db_dir_exists, runs, loads, instance,
                   built_on_missing_dir, outsideApp>>

\* The next interaction of the user: Streamlit runs the script again from
\* its first line, in the same process.
app_rerun ==
    /\ front = "app"
    /\ app_pc \in {"run_ended", "stopped", "crashed"}
    /\ runs < MaxRuns
    /\ runs' = runs + 1
    /\ app_pc' = "script_start"
    /\ instance' = FALSE
    /\ ui' = {}
    /\ UNCHANGED <<front, db_dir_exists, loads, built_on_missing_dir, request,
                   outsideApp>>

\* rag_core.get_rag_processor: the module-level singleton.
get_rag_processor ==
    /\ front = "rag_core"
    /\ IF instance
       THEN UNCHANGED <<loads, instance, built_on_missing_dir, db_dir_exists>>
       ELSE \E load_ok \in BOOLEAN :
               LET r == RagProcessor_init(db_dir_exists, load_ok) IN
               /\ loads' = IF r.loaded THEN loads + 1 ELSE loads
               /\ instance' = (r.outcome = "ok")
               /\ built_on_missing_dir' = (r.outcome = "ok" /\ ~db_dir_exists)
               /\ db_dir_exists' = (db_dir_exists \/ r.dir_created)
    /\ app_pc' = IF instance' THEN "chain_ready" ELSE app_pc
    /\ UNCHANGED <<front, runs, ui, request, outsideApp>>

\* RagProcessor.get_response: the graph retrieve -> generate.
get_response ==
    /\ front = "rag_core"
    /\ instance
    /\ \E retrieval_ok \in BOOLEAN, r \in Passages, llm_ok \in BOOLEAN :
          IF ~retrieval_ok
          THEN /\ req_retrieval' = "raised"
               /\ req_context' = 0
               /\ req_llm' = "not_called"
               /\ req_outcome' = "raised"
          ELSE LET g == RagProcessor_generate(r, llm_ok) IN
               /\ req_retrieval' = "returned"
               /\ req_context' = r
               /\ req_llm' = g.llm
               /\ req_outcome' = g.outcome
    /\ UNCHANGED <<front, db_dir_exists, app_pc, runs, loads, instance,
                   built_on_missing_dir, ui, outsideApp>>

\* The operator follows the page's advice ("Execute 'python ingest.py'"):
\* Chroma.from_documents at the end of process_documents creates the
\* directory.
ingest_creates_db_dir ==
    /\ ~db_dir_exists
    /\ db_dir_exists' = TRUE
    /\ UNCHANGED <<front, app_pc, runs, loads, instance, built_on_missing_dir,
                   ui, request, outsideApp>>

AppNext ==
    \/ app_init_chain
    \/ app_no_prompt
    \/ app_prompt
    \/ app_rerun
    \/ get_rag_processor
    \/ get_response
    \/ ingest_creates_db_dir

AppSpec == AppInit /\ [][AppNext]_vars


(***************************************************************************)
(* The ingestion job (ingest.py).  A chunk of the stored index is the PDF  *)
(* it was cut from and the run of process_documents that stored it.        *)
(***************************************************************************)
MaxPdfs == 2       \* PDF files that may be put into the docs directory
MaxIngests == 3    \* most runs of process_documents

Pdfs == 1..MaxPdfs

\* process_documents run number run: the early returns (no PDF, no PDF
\* loaded, old directory not removable) leave the directory as it is;
\* otherwise it is removed and rebuilt from the chunks of the loaded PDFs.
process_documents_result(pdf_files, failing, path, chunks, run, rm_ok) ==
    LET all_docs == pdf_files \ failing IN
    IF pdf_files = {}
    THEN [db_path |-> path, db_chunks |-> chunks,
          log |-> "Nenhum documento PDF encontrado"]
    ELSE IF all_docs = {}
    THEN [db_path |-> path, db_chunks |-> chunks,
          log |-> "Nenhum documento pode ser processado"]
    ELSE IF path # "absent" /\ ~rm_ok
    THEN [db_path |-> path, db_chunks |-> chunks,
          log |-> "Erro ao remover"]
    ELSE [db_path |-> "dir",
          db_chunks |-> {[source |-> p, run |-> run] : p \in all_docs},
          log |-> "Ingestao concluida"]

IngestInit ==
    /\ RetrievalQuiet
    /\ AppQuiet
    /\ ThreadsQuiet
    /\ StoreQuiet
    /\ SingletonQuiet
    /\ docs_dir = {}
    /\ unreadable = {}
    /\ db_path \in {"absent", "file"}
    /\ db_chunks = {}
    /\ ingest_runs = 0
    /\ fresh = FALSE

\* ingest.process_documents, one run.
process_documents ==
    /\ ingest_runs < MaxIngests
    /\ ingest_runs' = ingest_runs + 1
    /\ \E rm_ok \in BOOLEAN :
          LET r == process_documents_result(docs_dir, unreadable, db_path,
                                            db_chunks, ingest_runs + 1, rm_ok)
          IN  /\ db_path' = r.db_path
              /\ db_chunks' = r.db_chunks
    /\ fresh' = TRUE
    /\ UNCHANGED <<docs_dir, unreadable, retrievalVars, appVars, threadVars, storeVars,
                   singletonVars>>

\* The operator puts a PDF into the docs directory, readable or not.
add_pdf ==
    /\ \E p \in Pdfs \ docs_dir, readable \in BOOLEAN :
          /\ docs_dir' = docs_dir \cup {p}
          /\ unreadable' = IF readable THEN unreadable ELSE unreadable \cup {p}
    /\ fresh' = FALSE
    /\ UNCHANGED <<db_path, db_chunks, ingest_runs, retrievalVars, appVars,
                   threadVars, storeVars,
                   singletonVars>>

\* The operator takes a PDF out of the docs directory.
remove_pdf ==
    /\ \E p \in docs_dir :
          /\ docs_dir' = docs_dir \ {p}
          /\ unreadable' = unreadable \ {p}
    /\ fresh' = FALSE
    /\ UNCHANGED <<db_path, db_chunks, ingest_runs, retrievalVars, appVars,
                   threadVars, storeVars,
                   singletonVars>>

IngestNext ==
    \/ process_documents
    \/ add_pdf
    \/ remove_pdf

IngestSpec == IngestInit /\ [][IngestNext]_vars

(***************************************************************************)
(* Concurrent calls on one VectorRetriever.  The instance attributes       *)
(* (vectordb, reranker, the configuration) are shared and only read; the   *)
(* list results_with_scores is a local of each call.  A call is two steps: *)
(* the similarity search, then the rest of the method; steps of different  *)
(* threads interleave.  The cross-encoder is one loaded model: whoever     *)
(* asks, a pair gets the same score.                                       *)
(***************************************************************************)
ConcurrentMethods ==
    {"retrieve_context_with_scores", "retrieve_context_vector_search_only"}

\* The score the loaded cross-encoder gives to the pair (q, page_content).
cross_encoder(q, c) == (q + c) % (MaxScore + 1)

\* reranker.predict(pairs) for the candidates cands of query q.
predict_scores(q, cands) ==
    [i \in DOMAIN cands |-> cross_encoder(q, cands[i][1].page_content)]

\* Faulty variant of frame_of: the list is kept in one attribute of the
\* instance, shared by all calls.
frame_of_instance(t) == "t1"

\* The frame holding the locals of the call thread t runs.
frame_of(t) == t

\* What the call c returns when it runs alone on the index.
Alone(c) ==
    LET k == IF c.method = "retrieve_context_with_scores" THEN SEARCH_K_RAW
             ELSE vector_search_only_k(SEARCH_K_RAW, SEARCH_K_FINAL)
        cands == similarity_search_with_score(vectordb, index_ordered,
                                              c.query, k)
    IN  IF c.method = "retrieve_context_with_scores"
        THEN IF ~c.search_ok THEN recall_raises
             ELSE IF NoResults(cands)
                  THEN [outcome |-> "returned", value |-> <<>>, log |-> <<>>]
             ELSE IF c.predict_ok
                  THEN retrieve_context_with_scores_try(
                           cands, predict_scores(c.query, cands), SEARCH_K_FINAL)
             ELSE retrieve_context_with_scores_except(cands, SEARCH_K_FINAL)
        ELSE IF ~c.search_ok THEN retrieve_context_vector_search_only_except
             ELSE retrieve_context_vector_search_only_try(cands)

ConcInit ==
    /\ vectordb \in Indexes
    /\ indexed = vectordb
    /\ index_ordered \in BOOLEAN
    /\ SEARCH_K_RAW \in 1..MaxK
    /\ SEARCH_K_FINAL \in 1..MaxK
    /\ CallQuiet
    /\ AppQuiet
    /\ IngestQuiet
    /\ ThreadsQuiet
    /\ StoreQuiet
    /\ SingletonQuiet

\* The call of thread t ends with the handler result r.
ThreadDone(t, c, r) ==
    /\ calls' = [calls EXCEPT ![t] =
                    [c EXCEPT !.pc = "done", !.outcome = r.outcome,
                              !.returned = r.value]]

\* Thread t enters method m with query q and runs its similarity search;
\* the answer is bound to the local results_with_scores.
thread_search(t) ==
    /\ calls[t].pc = "idle"
    /\ \E m \in ConcurrentMethods, q \in Queries, search_ok \in BOOLEAN :
          LET k == IF m = "retrieve_context_with_scores" THEN SEARCH_K_RAW
                   ELSE vector_search_only_k(SEARCH_K_RAW, SEARCH_K_FINAL)
              answer == similarity_search_with_score(vectordb, index_ordered,
                                                     q, k)
              c == [NoThreadCall EXCEPT !.method = m, !.query = q,
                                        !.search_ok = search_ok]
          IN  IF ~search_ok
              THEN /\ ThreadDone(t, c,
                         IF m = "retrieve_context_with_scores"
                         THEN recall_raises
                         ELSE retrieve_context_vector_search_only_except)
                   /\ UNCHANGED frames
              ELSE /\ frames' = [frames EXCEPT ![frame_of(t)] = answer]
                   /\ calls' = [calls EXCEPT ![t] = [c EXCEPT !.pc = "searched"]]
    /\ UNCHANGED <<vectordb, indexed, index_ordered, config, pc, call, prev, appVars,
                   ingestVars, storeVars,
                   singletonVars>>

\* retrieve_context_with_scores after the search: the empty check, then
\* pairs, predict, zip, sort, slice on the local list.
thread_rerank(t) ==
    /\ calls[t].pc = "searched"
    /\ calls[t].method = "retrieve_context_with_scores"
    /\ LET cands == frames[frame_of(t)] IN
       IF NoResults(cands)
       THEN ThreadDone(t, calls[t],
                [outcome |-> "returned", value |-> <<>>, log |-> <<>>])
       ELSE \E predict_ok \in BOOLEAN :
               ThreadDone(t, [calls[t] EXCEPT !.predict_ok = predict_ok],
                   IF predict_ok
                   THEN retrieve_context_with_scores_try(
                            cands, predict_scores(calls[t].query, cands),
                            SEARCH_K_FINAL)
                   ELSE retrieve_context_with_scores_except(
                            cands, SEARCH_K_FINAL))
    /\ frames' = [frames EXCEPT ![frame_of(t)] = <<>>]
    /\ UNCHANGED <<vectordb, indexed, index_ordered, config, pc, call, prev, appVars,
                   ingestVars, storeVars,
                   singletonVars>>

\* retrieve_context_vector_search_only after the search: the empty check
\* and the in-place sort of the local list.
thread_sort(t) ==
    /\ calls[t].pc = "searched"
    /\ calls[t].method = "retrieve_context_vector_search_only"
    /\ ThreadDone(t, calls[t],
           retrieve_context_vector_search_only_try(frames[frame_of(t)]))
    /\ frames' = [frames EXCEPT ![frame_of(t)] = <<>>]
    /\ UNCHANGED <<vectordb, indexed, index_ordered, config, pc, call, prev, appVars,
                   ingestVars, storeVars,
                   singletonVars>>

\* The caller of thread t takes the result; the thread is free for its
\* next call.
thread_return(t) ==
    /\ calls[t].pc = "done"
    /\ calls' = [calls EXCEPT ![t] = NoThreadCall]
    /\ UNCHANGED <<frames, vectordb, indexed, index_ordered, config, pc, call, prev,
                   appVars, ingestVars, storeVars,
                   singletonVars>>

ConcNext ==
    \/ \E t \in Threads : thread_search(t)
    \/ \E t \in Threads : thread_rerank(t)
    \/ \E t \in Threads : thread_sort(t)
    \/ \E t \in Threads : thread_return(t)

ConcSpec == ConcInit /\ [][ConcNext]_vars


(***************************************************************************)
(* The chat tables of the SQLite file.  A row of chat_history is its id; a *)
(* row of feedback is its id, the message_id it rates and the rating.      *)
(* Every method opens its own connection; whether a statement or a commit  *)
(* succeeds is chosen by the environment.                                  *)
(***************************************************************************)
Max(S) == CHOOSE x \in S : \A y \in S : y <= x

\* cursor.lastrowid after an INSERT into an AUTOINCREMENT table with the
\* committed row ids ids.
lastrowid(ids) == Max(ids \cup {0}) + 1

\* RAGChain.save_message: new_id is read from the cursor before the commit,
\* every exception is printed and swallowed, new_id is returned.
save_message(chat_history, insert_ok, commit_ok) ==
    IF ~insert_ok
    THEN [chat_history |-> chat_history, new_id |-> 0]
    ELSE IF ~commit_ok
    THEN [chat_history |-> chat_history, new_id |-> lastrowid(chat_history)]
    ELSE [chat_history |-> chat_history \cup {lastrowid(chat_history)},
          new_id |-> lastrowid(chat_history)]

\* Faulty variant of feedback_upsert: the first rating of a message is final.
feedback_insert_or_ignore(rows, message_id, rating) ==
    IF \E r \in rows : r.message_id = message_id
    THEN rows
    ELSE rows \cup {[id |-> lastrowid({r.id : r \in rows}),
                     message_id |-> message_id, rating |-> rating]}

\* INSERT INTO feedback ... ON CONFLICT(message_id) DO UPDATE SET rating = ...
\* on the table declared with UNIQUE(message_id).
feedback_upsert(rows, message_id, rating) ==
    IF \E r \in rows : r.message_id = message_id
    THEN {IF r.message_id = message_id THEN [r EXCEPT !.rating = rating] ELSE r :
              r \in rows}
    ELSE rows \cup {[id |-> lastrowid({r.id : r \in rows}),
                     message_id |-> message_id, rating |-> rating]}

DbInit ==
    /\ RetrievalQuiet
    /\ AppQuiet
    /\ IngestQuiet
    /\ ThreadsQuiet
    /\ SingletonQuiet
    /\ sqlite_db = EmptyDb
    /\ response = NoResponse
    /\ feedback_calls = [m \in Messages |-> NoFeedbackCall]
    /\ evaluation = NoEvaluation

\* RAGChain.generate_response once retrieval has returned: generate calls the
\* model and, when it answered, save_message; app.py offers the feedback
\* buttons `if response_dict["message_id"]`.
generate_response ==
    /\ lastrowid(sqlite_db.chat_history) <= MaxMessages
    /\ \E llm_ok \in BOOLEAN, insert_ok \in BOOLEAN, commit_ok \in BOOLEAN :
          IF ~llm_ok
          THEN /\ response' = [answered |-> FALSE, message_id |-> 0,
                               buttons |-> FALSE]
               /\ UNCHANGED sqlite_db
          ELSE LET r == save_message(sqlite_db.chat_history, insert_ok, commit_ok)
               IN  /\ sqlite_db' = [sqlite_db EXCEPT !.chat_history = r.chat_history]
                   /\ response' = [answered |-> TRUE, message_id |-> r.new_id,
                                   buttons |-> r.new_id # 0]
    /\ UNCHANGED <<feedback_calls, evaluation, retrievalVars, appVars,
                   ingestVars, threadVars, singletonVars>>

\* RAGChain.save_feedback(message_id, rating): the upsert and its commit in
\* a try block whose handler prints the exception.
save_feedback ==
    /\ \E m \in Messages, rating \in Ratings, write_ok \in BOOLEAN :
          /\ sqlite_db' = IF write_ok
                          THEN [sqlite_db EXCEPT !.feedback =
                                   feedback_upsert(@, m, rating)]
                          ELSE sqlite_db
          /\ feedback_calls' = [feedback_calls EXCEPT ![m] =
                [last |-> rating, previous |-> @.last, written |-> write_ok,
                 stored |-> IF write_ok THEN rating ELSE @.stored]]
    /\ UNCHANGED <<response, evaluation, retrievalVars, appVars, ingestVars,
                   threadVars, singletonVars>>

DbNext ==
    \/ generate_response
    \/ save_feedback

DbSpec == DbInit /\ [][DbNext]_vars


(***************************************************************************)
(* validate_vector_db.save_evaluation_to_db: one connection, the INSERT of *)
(* the run, one INSERT per displayed result, one commit; `except` rolls    *)
(* back.  sqlite_db holds what is committed, that is what every other      *)
(* connection reads; the rows written and not yet committed are kept in    *)
(* evaluation.                                                             *)
(***************************************************************************)
SearchTypes == {"vector_only", "reranked"}

\* Faulty variant of save_evaluation_except: what was inserted is kept.
save_evaluation_except_keep(db, ev) ==
    [db EXCEPT !.validation_runs = @ \cup ev.runs,
               !.validation_retrieved_chunks = @ \cup ev.chunks]

\* `except Exception: conn.rollback()`: the rows of the transaction are gone.
save_evaluation_except(db, ev) == db

\* conn.commit(): the rows of the transaction become visible together.
save_evaluation_commit(db, ev) ==
    [db EXCEPT !.validation_runs = @ \cup ev.runs,
               !.validation_retrieved_chunks = @ \cup ev.chunks]

EvalInit ==
    /\ RetrievalQuiet
    /\ AppQuiet
    /\ IngestQuiet
    /\ ThreadsQuiet
    /\ SingletonQuiet
    /\ sqlite_db = EmptyDb
    /\ response = NoResponse
    /\ feedback_calls = [m \in Messages |-> NoFeedbackCall]
    /\ evaluation = NoEvaluation

evalFrame == <<response, feedback_calls, retrievalVars, appVars, ingestVars,
               threadVars, singletonVars>>

\* save_evaluation_to_db, "4. Inserir na tabela 'validation_runs'" for k
\* displayed results; connecting or inserting may raise.
save_evaluation_insert_run ==
    /\ evaluation.pc = "idle"
    /\ lastrowid({r.id : r \in sqlite_db.validation_runs}) <= MaxEvaluations
    /\ \E k \in 0..MaxResults, search_type \in SearchTypes, ok \in BOOLEAN :
          LET run_id == lastrowid({r.id : r \in sqlite_db.validation_runs}) IN
          evaluation' =
              IF ok
              THEN [pc |-> "chunks", k |-> k, run_id |-> run_id,
                    runs |-> {[id |-> run_id, search_type |-> search_type,
                               k |-> k]},
                    chunks |-> {}]
              ELSE [NoEvaluation EXCEPT !.pc = "except", !.k = k]
    /\ UNCHANGED <<sqlite_db, evalFrame>>

\* "5. Inserir cada chunk": the next (rank, (doc, score)) of results_map;
\* float(score) or the INSERT may raise.
save_evaluation_insert_chunk ==
    /\ evaluation.pc = "chunks"
    /\ Cardinality(evaluation.chunks) < evaluation.k
    /\ \E ok \in BOOLEAN :
          evaluation' =
              IF ok
              THEN [evaluation EXCEPT !.chunks = @ \cup
                       {[run_id |-> evaluation.run_id,
                         rank |-> Cardinality(evaluation.chunks) + 1]}]
              ELSE [evaluation EXCEPT !.pc = "except"]
    /\ UNCHANGED <<sqlite_db, evalFrame>>

\* conn.commit() after the loop, then `finally: conn.close()`.
save_evaluation_commit_step ==
    /\ evaluation.pc = "chunks"
    /\ Cardinality(evaluation.chunks) = evaluation.k
    /\ \E ok \in BOOLEAN :
          IF ok
          THEN /\ sqlite_db' = save_evaluation_commit(sqlite_db, evaluation)
               /\ evaluation' = NoEvaluation
          ELSE /\ evaluation' = [evaluation EXCEPT !.pc = "except"]
               /\ UNCHANGED sqlite_db
    /\ UNCHANGED evalFrame

\* The handler: rollback, st.error, then `finally: conn.close()`.
save_evaluation_rollback ==
    /\ evaluation.pc = "except"
    /\ sqlite_db' = save_evaluation_except(sqlite_db, evaluation)
    /\ evaluation' = NoEvaluation
    /\ UNCHANGED evalFrame

EvalNext ==
    \/ save_evaluation_insert_run
    \/ save_evaluation_insert_chunk
    \/ save_evaluation_commit_step
    \/ save_evaluation_rollback

EvalSpec == EvalInit /\ [][EvalNext]_vars


(***************************************************************************)
(* The lazy singletons: rag_core.get_rag_processor and get_rag_chain of    *)
(* the legacy module.  Both test a module-level variable, build the        *)
(* pipeline when it is empty, store it and return the variable; no lock is *)
(* taken.  An instance is the number of the construction that built it, 0  *)
(* stands for None.  Threads interleave between the steps.                 *)
(***************************************************************************)
Accessors == {"get_rag_processor", "get_rag_chain"}

SingletonInit ==
    /\ RetrievalQuiet
    /\ AppQuiet
    /\ IngestQuiet
    /\ ThreadsQuiet
    /\ StoreQuiet
    /\ \E a \in Accessors :
          singleton = [accessor |-> a, instance |-> 0, constructions |-> 0,
                       handed |-> {}]
    /\ getters = [t \in Threads |-> NoGetter]

singletonFrame == <<retrievalVars, appVars, ingestVars, threadVars, storeVars>>

\* `if _rag_processor_instance is None:` / `if rag_chain: return rag_chain`
singleton_check(t) ==
    /\ getters[t].pc = "idle"
    /\ getters' = [getters EXCEPT ![t].pc =
                      IF singleton.instance = 0 THEN "construct" ELSE "return"]
    /\ UNCHANGED <<singleton, singletonFrame>>

\* RagProcessor() / the body of get_rag_chain: the models are loaded and the
\* pipeline is built, or an exception leaves the accessor.
singleton_construct(t) ==
    /\ getters[t].pc = "construct"
    /\ \E load_ok \in BOOLEAN :
          IF load_ok
          THEN /\ singleton' = [singleton EXCEPT !.constructions = @ + 1]
               /\ getters' = [getters EXCEPT
                                 ![t].pc = "assign",
                                 ![t].built = singleton.constructions + 1]
          ELSE /\ getters' = [getters EXCEPT ![t].pc = "raised"]
               /\ UNCHANGED singleton
    /\ UNCHANGED singletonFrame

\* `_rag_processor_instance = ...` / `rag_chain = ...`
singleton_assign(t) ==
    /\ getters[t].pc = "assign"
    /\ singleton' = [singleton EXCEPT !.instance = getters[t].built]
    /\ getters' = [getters EXCEPT ![t].pc = "return"]
    /\ UNCHANGED singletonFrame

\* `return _rag_processor_instance` / `return rag_chain`
singleton_return(t) ==
    /\ getters[t].pc = "return"
    /\ getters' = [getters EXCEPT ![t].pc = "done",
                                  ![t].got = singleton.instance]
    /\ singleton' = [singleton EXCEPT !.handed = @ \cup {singleton.instance}]
    /\ UNCHANGED singletonFrame

\* The thread is free to call the accessor again.
singleton_again(t) ==
    /\ getters[t].pc \in {"done", "raised"}
    /\ getters' = [getters EXCEPT ![t] = NoGetter]
    /\ UNCHANGED <<singleton, singletonFrame>>

SingletonNext ==
    \/ \E t \in Threads : singleton_check(t)
    \/ \E t \in Threads : singleton_construct(t)
    \/ \E t \in Threads : singleton_assign(t)
    \/ \E t \in Threads : singleton_return(t)
    \/ \E t \in Threads : singleton_again(t)

SingletonSpec == SingletonInit /\ [][SingletonNext]_vars

\* ------------------------------------------------------------ the claims
\* A call of the full pipeline has ended; N candidates came from Stage 1.
FullDone == pc = "idle" /\ method \in FullPipeline
N == Len(results_with_scores)

\* The documents of a full-pipeline result: RagProcessor.retrieve returns
\* them bare; of the (doc, score) tuples of retrieve_context_with_scores they
\* are what VectorRetriever.retrieve_context returns for the same call.
ReturnedDocs ==
    IF method = "retrieve" THEN returned ELSE retrieve_context(returned)

\* Position, Stage 1 distance and cross-encoder score of a candidate doc.
PositionOf(doc) ==
    CHOOSE i \in DOMAIN results_with_scores : results_with_scores[i][1] = doc
DistanceOf(doc) == results_with_scores[PositionOf(doc)][2]
ScoreOf(doc) == rerank_scores[PositionOf(doc)]
Count(x, s) == Cardinality({i \in DOMAIN s : s[i] = x})

\* The relevance score that goes with the i-th returned passage.
RelevanceAt(i) ==
    IF method = "retrieve" THEN ScoreOf(returned[i]) ELSE returned[i][2]

\* C1: in the full pipeline (retrieve_context_with_scores, retrieve_context
\* on top of it, RagProcessor.retrieve), when Stage 1 found N >= 1 candidates
\* and the cross-encoder call raised, the call returns min(K_FINAL, N) of the
\* candidates (so a non-empty list), in ascending Stage 1 distance.
C1_FallbackByDistance ==
    (FullDone /\ stage1 = "ok" /\ N >= 1 /\ predict = "raised") =>
        /\ outcome = "returned"
        /\ Len(returned) = Min(SEARCH_K_FINAL, N)
        /\ \A i \in DOMAIN ReturnedDocs :
              ReturnedDocs[i] \in Range(Docs(results_with_scores))
        /\ \A i \in 1..(Len(ReturnedDocs) - 1) :
              DistanceOf(ReturnedDocs[i]) <= DistanceOf(ReturnedDocs[i + 1])

\* C2: when Stage 1 succeeded, a call of the full pipeline ends by returning
\* a value, never by raising, whether or not the cross-encoder raised.
C2_RerankFailureNotPropagated ==
    (FullDone /\ stage1 = "ok") => outcome = "returned"

C2_Witness ==
    /\ FullDone
    /\ method = "retrieve_context_with_scores"
    /\ N >= 1
    /\ predict = "raised"
    /\ outcome = "returned"

\* C3: when the cross-encoder answered, the relevance scores of the returned
\* passages are non-increasing along the list.
C3_RelevanceNonIncreasing ==
    (FullDone /\ predict = "ok") =>
        \A i \in 1..(Len(returned) - 1) : RelevanceAt(i) >= RelevanceAt(i + 1)

C3_Witness ==
    /\ FullDone
    /\ predict = "ok"
    /\ Len(returned) >= 2
    /\ rerank_scores[1] < rerank_scores[2]
    /\ RelevanceAt(1) > RelevanceAt(2)

\* C4: whatever the outcome of a full-pipeline call, it returns at most
\* K_FINAL and at most K_RAW results, also when K_FINAL > K_RAW.
C4_SizeBound ==
    FullDone =>
        /\ Len(returned) <= SEARCH_K_FINAL
        /\ Len(returned) <= SEARCH_K_RAW

C4_Witness ==
    /\ FullDone
    /\ SEARCH_K_FINAL > SEARCH_K_RAW
    /\ Len(vectordb) > SEARCH_K_RAW
    /\ predict = "ok"
    /\ Len(returned) = SEARCH_K_RAW

\* C5: the passages a full-pipeline call returns are Stage 1 candidates of
\* that call, none returned more often than it occurs among the candidates.
C5_SubMultiset ==
    FullDone =>
        \A i \in DOMAIN ReturnedDocs :
            /\ Count(ReturnedDocs[i], ReturnedDocs) <=
                   Count(ReturnedDocs[i], Docs(results_with_scores))
            /\ ReturnedDocs[i] = Document(ReturnedDocs[i].id,
                                          vectordb[ReturnedDocs[i].id])

C5_Witness ==
    /\ FullDone
    /\ predict = "ok"
    /\ Len(returned) >= 1
    /\ Len(returned) < N
    /\ ReturnedDocs[1] # results_with_scores[1][1]

\* C6: a failure of Stage 1 (the similarity search raised) ends the call with
\* that failure, in the full pipeline and in the recall-only mode alike,
\* after one search (no retry) and without a normal-looking result.
C6_RecallFailurePropagated ==
    (pc = "idle" /\ method \in Methods /\ stage1 = "raised") =>
        /\ outcome = "raised"
        /\ index_queries = 1

\* C7: on the nominal path (Stage 1 answered N candidates and the
\* cross-encoder one score per candidate) the full pipeline returns exactly
\* min(K_FINAL, N) results whatever the scores are, so an empty result means
\* that Stage 1 found nothing.
C7_NominalLength ==
    (FullDone /\ stage1 = "ok"
        /\ (N = 0 \/ (predict = "ok" /\ Len(rerank_scores) = N))) =>
        /\ Len(returned) = Min(SEARCH_K_FINAL, N)
        /\ (returned = <<>> => N = 0)

C7_Witness ==
    /\ FullDone
    /\ SEARCH_K_RAW = 1
    /\ SEARCH_K_FINAL > 1
    /\ N = 1
    /\ predict = "ok"
    /\ rerank_scores = <<0>>
    /\ Len(returned) = 1

\* C8: when Stage 1 returns no candidate, the full pipeline returns the empty
\* list, does not raise and never calls the cross-encoder.
C8_EmptyIndex ==
    (FullDone /\ stage1 = "ok" /\ N = 0) =>
        /\ outcome = "returned"
        /\ returned = <<>>
        /\ predict = "not_called"

C8_Witness ==
    /\ FullDone
    /\ vectordb = <<>>
    /\ stage1 = "ok"
    /\ outcome = "returned"

\* C9: a full-pipeline call that repeats the previous call (same method and
\* query, oracles that repeat their answers) ends as that call ended and
\* returns the same list: same passages, same scores, same order.
C9_Idempotent ==
    (FullDone /\ prev.valid) =>
        /\ outcome = prev.outcome
        /\ returned = prev.returned

C9_Witness ==
    /\ FullDone
    /\ prev.valid
    /\ predict = "ok"
    /\ Len(returned) >= 2
    /\ RelevanceAt(1) = RelevanceAt(2)

\* C10: what the recall-only mode returns is in non-decreasing distance, also
\* when the index answered in another order.
C10_RecallOnlyAscending ==
    (pc = "idle" /\ method = "retrieve_context_vector_search_only") =>
        \A i \in 1..(Len(returned) - 1) : returned[i][2] <= returned[i + 1][2]

C10_Witness ==
    /\ pc = "idle"
    /\ method = "retrieve_context_vector_search_only"
    /\ ~index_ordered
    /\ Len(returned) >= 2
    /\ results_with_scores[1][2] > results_with_scores[2][2]

\* A call of the recall-only mode has ended.
RecallOnlyDone ==
    pc = "idle" /\ method = "retrieve_context_vector_search_only"

\* C11: the recall-only mode never returns more than K_FINAL results,
\* whatever the size of the index and the query.
C11_RecallOnlySizeBound ==
    RecallOnlyDone => Len(returned) <= SEARCH_K_FINAL

C11_Witness ==
    /\ RecallOnlyDone
    /\ Len(vectordb) > SEARCH_K_FINAL
    /\ SEARCH_K_RAW > SEARCH_K_FINAL
    /\ Len(returned) = SEARCH_K_FINAL

\* C12: the recall-only mode issues one similarity search, with k = K_FINAL;
\* what the index answers is what Stage 1 answers for K_RAW = K_FINAL, and
\* when the index answers in ascending distance the call returns that answer,
\* element for element in the same order.
C12_RecallOnlyIsStage1 ==
    (RecallOnlyDone /\ stage1 = "ok") =>
        /\ index_queries = 1
        /\ search_k = SEARCH_K_FINAL
        /\ results_with_scores = similarity_search_with_score(
               vectordb, index_ordered, query, SEARCH_K_FINAL)
        /\ (index_ordered => returned = results_with_scores)

C12_Witness ==
    /\ RecallOnlyDone
    /\ index_ordered
    /\ SEARCH_K_RAW # SEARCH_K_FINAL
    /\ Len(returned) >= 2
    /\ returned[1][2] < returned[2][2]

\* C13: whatever retrieval operations (full pipeline, recall-only, full
\* scan) have run, in any number and order, the collection is the one the
\* retriever found: the same chunks in the same order with the same metadata.
C13_IndexNeverMutated ==
    /\ vectordb = indexed
    /\ vectordb_get(vectordb) = vectordb_get(indexed)

C13_Witness ==
    /\ pc = "idle"
    /\ prev.valid
    /\ method = "retrieve_context_vector_search_only"
    /\ Len(vectordb) >= 2
    /\ ~index_ordered
    /\ results_with_scores # returned

\* C19: the full scan returns every chunk of the collection with its
\* metadata, as two lists of equal length, and two empty lists for an empty
\* collection.
C19_FullScan ==
    (pc = "idle" /\ method = "get_all_chunks") =>
        /\ outcome = "returned"
        /\ returned.documents = vectordb
        /\ Len(returned.metadatas) = Len(returned.documents)
        /\ \A i \in DOMAIN returned.metadatas : returned.metadatas[i] = Metadata(i)
        /\ (vectordb = <<>> =>
                returned = [documents |-> <<>>, metadatas |-> <<>>])

C19_Witness ==
    /\ pc = "idle"
    /\ method = "get_all_chunks"
    /\ Len(returned.documents) = MaxIndex
    /\ Len(returned.metadatas) = MaxIndex

C19_WitnessEmpty ==
    /\ pc = "idle"
    /\ method = "get_all_chunks"
    /\ vectordb = <<>>

\* C14: a pipeline object is never built on a missing index directory, so
\* no question is accepted by one: construction fails in VectorRetriever and
\* has to fail in RagProcessor as well.
C14_MissingDirFailsAtInit ==
    instance => ~built_on_missing_dir

\* C15: the embedding model, the index handle and the cross-encoder are
\* loaded at most once in a process, however many script runs and questions
\* it serves.
C15_LoadedAtMostOnce ==
    loads <= 1

\* C17: the page never shows an exception text, the index path or a
\* traceback; a failure is shown as the generic sentence only.
C17_OnlyGenericErrorShown ==
    ui \cap {"exception_text", "index_path", "traceback"} = {}

\* C18: a retrieval that returns zero passages is followed by the
\* generation step: model.invoke is called, and unless the model itself
\* fails the request is answered without an exception.
C18_EmptyContextStillGenerates ==
    (req_retrieval = "returned" /\ req_context = 0) =>
        /\ req_llm # "not_called"
        /\ (req_llm = "ok" => req_outcome = "answered")
        /\ (req_outcome = "raised" => req_llm = "raised" /\ front = "rag_core")

C18_Witness ==
    /\ front = "app"
    /\ req_retrieval = "returned"
    /\ req_context = 0
    /\ req_outcome = "answered"
    /\ "answer" \in ui

C18_WitnessRagCore ==
    /\ front = "rag_core"
    /\ req_retrieval = "returned"
    /\ req_context = 0
    /\ req_outcome = "answered"

\* C16: a call that ran interleaved with the calls of other threads has
\* returned (or raised) what it returns when it runs alone on the same
\* index with the same query.
C16_ConcurrentAsAlone ==
    \A t \in Threads :
        calls[t].pc = "done" =>
            /\ calls[t].outcome = Alone(calls[t]).outcome
            /\ calls[t].returned = Alone(calls[t]).value

C16_Witness ==
    /\ calls["t1"].pc = "done"
    /\ calls["t2"].pc = "searched"
    /\ calls["t1"].query # calls["t2"].query
    /\ calls["t1"].method # calls["t2"].method
    /\ Len(calls["t1"].returned) >= 2
    /\ Len(frames["t2"]) >= 2
    /\ ~index_ordered

\* C20: when a run of process_documents has ended, every chunk of the
\* index was cut in that run from a PDF that is in the docs directory.
C20_IndexReflectsDocs ==
    fresh => \A c \in db_chunks :
                 c.source \in docs_dir /\ c.run = ingest_runs

\* The cross-encoder answered one score per pair, in the order of the pairs.
Nominal == FullDone /\ stage1 = "ok" /\ predict = "ok" /\ Len(rerank_scores) = N

\* The Stage 1 positions of the candidates that were not returned.
NotReturned ==
    {j \in DOMAIN results_with_scores :
        \A i \in DOMAIN ReturnedDocs : ReturnedDocs[i] # results_with_scores[j][1]}

\* C22: when the cross-encoder answers a number of scores other than the
\* number N of pairs, the full pipeline returns the Stage 1 candidates in
\* ascending distance, cut to K_FINAL, as after any Stage 2 failure.
C22_MalformedScoresFallBack ==
    (FullDone /\ stage1 = "ok" /\ N >= 1
        /\ predict = "ok" /\ Len(rerank_scores) # N) =>
        ReturnedDocs = Docs(Take(SortByKey(results_with_scores, FALSE),
                                 SEARCH_K_FINAL))

\* C23: on the nominal path of retrieve_context_with_scores every returned
\* tuple is a candidate with the score the cross-encoder gave to the pair at
\* that candidate's Stage 1 position.
C23_ScoreOfOwnPair ==
    (Nominal /\ method = "retrieve_context_with_scores") =>
        \A i \in DOMAIN returned :
            /\ returned[i][1] \in Range(Docs(results_with_scores))
            /\ returned[i][2] = rerank_scores[PositionOf(returned[i][1])]

C23_Witness ==
    /\ Nominal
    /\ method = "retrieve_context_with_scores"
    /\ N >= 2
    /\ Len(returned) >= 1
    /\ PositionOf(returned[1][1]) = 2
    /\ returned[1][2] # rerank_scores[1]
    /\ returned[1][2] # DistanceOf(returned[1][1])

\* C24: on the nominal path no candidate that was left out has a higher
\* relevance score than a returned passage.
C24_TopScoring ==
    Nominal =>
        \A j \in NotReturned : \A i \in DOMAIN ReturnedDocs :
            rerank_scores[j] <= RelevanceAt(i)

C24_Witness ==
    /\ Nominal
    /\ Len(returned) >= 1
    /\ 1 \in NotReturned
    /\ rerank_scores[1] < RelevanceAt(1)

\* C25: on the nominal path candidates of equal relevance score keep their
\* Stage 1 order in the result, and of two such candidates on either side of
\* the K_FINAL cut the earlier one is the one returned.
C25_StableTies ==
    Nominal =>
        /\ \A i, j \in DOMAIN ReturnedDocs :
              (i < j /\ RelevanceAt(i) = RelevanceAt(j)) =>
                  PositionOf(ReturnedDocs[i]) < PositionOf(ReturnedDocs[j])
        /\ \A j \in NotReturned : \A i \in DOMAIN ReturnedDocs :
              rerank_scores[j] = RelevanceAt(i) =>
                  PositionOf(ReturnedDocs[i]) < j

C25_Witness ==
    /\ Nominal
    /\ N = 2
    /\ SEARCH_K_FINAL = 1
    /\ rerank_scores[1] = rerank_scores[2]
    /\ Len(returned) = 1
    /\ NotReturned = {2}

C25_WitnessInResult ==
    /\ Nominal
    /\ Len(returned) = 2
    /\ RelevanceAt(1) = RelevanceAt(2)
    /\ ~index_ordered

\* C26: a full-pipeline call that has ended queried the index once, with
\* k = K_RAW, and called the cross-encoder at most once, after Stage 1 had
\* answered, with one batch of all N pairs; the fallback adds no call.
C26_OneQueryOneBatch ==
    FullDone =>
        /\ index_queries = 1
        /\ search_k = SEARCH_K_RAW
        /\ Len(predict_batches) <= 1
        /\ (predict # "not_called" =>
               /\ stage1 = "ok"
               /\ N >= 1
               /\ predict_batches = <<N>>)
        /\ (predict = "not_called" => predict_batches = <<>>)

C26_Witness ==
    /\ FullDone
    /\ method = "retrieve"
    /\ predict = "raised"
    /\ N >= 2
    /\ SEARCH_K_RAW # SEARCH_K_FINAL
    /\ Len(returned) >= 1

\* The messages that identify a failure of the re-ranking.
RerankFailureLogged ==
    \E i \in DOMAIN log : log[i] = "Erro durante o Re-Ranking"

\* C27: a full-pipeline call whose cross-encoder call raised has printed the
\* re-ranking error before it returned, and a call that stayed on the
\* nominal path has not.
C27_FallbackLogged ==
    FullDone =>
        /\ (predict = "raised" => RerankFailureLogged)
        /\ (predict # "raised" => ~RerankFailureLogged)

C27_Witness ==
    /\ FullDone
    /\ predict = "raised"
    /\ outcome = "returned"
    /\ RerankFailureLogged
    /\ Len(log) >= 1

\* The rows of the feedback table that rate message m.
FeedbackRows(m) == {r \in sqlite_db.feedback : r.message_id = m}

C29_MessageIdMeansCommitted ==
    /\ (response.message_id # 0 =>
           response.message_id \in sqlite_db.chat_history)
    /\ (response.buttons => response.message_id \in sqlite_db.chat_history)

\* The ranks of the committed chunk rows of run run_id.
ChunkRanks(run_id) ==
    {c.rank : c \in {x \in sqlite_db.validation_retrieved_chunks :
                        x.run_id = run_id}}

\* C30: at any moment the committed tables hold, for every run, one chunk
\* row for each of its displayed results, and no chunk row without its run;
\* once save_evaluation_to_db has returned nothing of it is left uncommitted.
C30_EvaluationAllOrNothing ==
    /\ \A r \in sqlite_db.validation_runs : ChunkRanks(r.id) = 1..r.k
    /\ \A c \in sqlite_db.validation_retrieved_chunks :
          \E r \in sqlite_db.validation_runs : r.id = c.run_id
    /\ (evaluation.pc = "idle" => evaluation.runs = {} /\ evaluation.chunks = {})

C30_Witness ==
    /\ evaluation.pc = "except"
    /\ evaluation.k = MaxResults
    /\ Cardinality(evaluation.chunks) = 1
    /\ Cardinality(sqlite_db.validation_runs) = 1
    /\ Cardinality(sqlite_db.validation_retrieved_chunks) = MaxResults

\* C28: the pipeline behind a lazy singleton accessor is built at most once
\* and every caller is handed the same instance, whatever the interleaving
\* of the callers.
C28_BuiltOnceSameInstance ==
    /\ singleton.constructions <= 1
    /\ Cardinality(singleton.handed) <= 1

====
